---- MODULE Spec2Model ----
(***************************************************************************)
(* GENOMOS (src/genomos.py): classification of samples by melting          *)
(* temperature.  main() is one sequential run: validate the arguments,     *)
(* read the table, parse the -t reference entries, verify the Tm columns,  *)
(* compute the absolute differences, assign a state per locus, compose the *)
(* multi-locus genotype, save the table and, optionally, the summary.      *)
(*                                                                         *)
(* Strings are sequences of one-character strings, so that split, strip,   *)
(* lower, startswith, count and the f-strings are modelled by what they    *)
(* do.  Numbers (reference values, measured Tm) are integers in one fixed  *)
(* unit; percentages are kept in hundredths of a percent, which is what    *)
(* the ":.2f" format prints.                                               *)
(***************************************************************************)
EXTENDS Integers, Sequences, FiniteSets, TLC

VARIABLES
    args,        \* parsed command line: num_mutaciones, tm, txt
    pc,          \* position of main()
    err,         \* the exception that ended the run ("" when none)
    errEntry,    \* the -t argument named by the format error (<<>> when none)
    fileExists,  \* what os.path.exists(args.file) answered
    df,          \* the data frame
    posiciones,  \* the reference mapping: pos -> {estado -> valor}
    excel,       \* the table pd.read_excel returned
    written,     \* the outputs written so far, in order
    resumen      \* the content of the summary file

vars == <<args, pc, err, errEntry, fileExists, df, posiciones, excel, written, resumen>>

----------------------------------------------------------------------------
(* Bounds of the model.                                                    *)

MaxT == 2
MaxRows == 1
MaxPairs == 3
MaxSummaryRows == 6
MaxWideRows == 1

----------------------------------------------------------------------------
(* Strings.                                                                *)

Digits == <<"0", "1", "2", "3", "4", "5", "6", "7", "8", "9">>

IsDigit(c) == \E i \in 1..10 : Digits[i] = c

DigitValue(c) == (CHOOSE i \in 1..10 : Digits[i] = c) - 1

IsSpace(c) == c = " "

RECURSIVE IndexFrom(_, _, _)
\* the first index >= i of character c in s, 0 when there is none
IndexFrom(s, c, i) ==
    IF i > Len(s) THEN 0
    ELSE IF s[i] = c THEN i
    ELSE IndexFrom(s, c, i + 1)

\* str.split(sep, 1)
SplitOnce(s, sep) ==
    LET i == IndexFrom(s, sep, 1)
    IN  IF i = 0 THEN <<s>>
        ELSE <<SubSeq(s, 1, i - 1), SubSeq(s, i + 1, Len(s))>>

RECURSIVE Split(_, _)
\* str.split(sep)
Split(s, sep) ==
    LET i == IndexFrom(s, sep, 1)
    IN  IF i = 0 THEN <<s>>
        ELSE <<SubSeq(s, 1, i - 1)>> \o Split(SubSeq(s, i + 1, Len(s)), sep)

RECURSIVE LStrip(_)
LStrip(s) ==
    IF s # <<>> /\ IsSpace(Head(s)) THEN LStrip(Tail(s)) ELSE s

RECURSIVE RStrip(_)
RStrip(s) ==
    IF s # <<>> /\ IsSpace(s[Len(s)]) THEN RStrip(SubSeq(s, 1, Len(s) - 1)) ELSE s

\* str.strip()
Strip(s) == RStrip(LStrip(s))

LowerChar(c) ==
    CASE c = "S" -> "s"
      [] c = "H" -> "h"
      [] c = "R" -> "r"
      [] c = "E" -> "e"
      [] c = "X" -> "x"
      [] OTHER -> c

\* str.lower()
Lower(s) == [i \in 1..Len(s) |-> LowerChar(s[i])]

\* str.startswith(c) for a one-character prefix
StartsWith(s, c) == s # <<>> /\ s[1] = c

RECURSIVE DigitsValue(_)
DigitsValue(s) ==
    IF s = <<>> THEN 0
    ELSE 10 * DigitsValue(SubSeq(s, 1, Len(s) - 1)) + DigitValue(s[Len(s)])

\* float(s), on the strings of the model: surrounding blanks are ignored and
\* an unsigned decimal integer is accepted; anything else is a ValueError.
ParseFloat(s) ==
    LET t == Strip(s)
    IN  IF t # <<>> /\ \A i \in 1..Len(t) : IsDigit(t[i])
        THEN [ok |-> TRUE, val |-> DigitsValue(t)]
        ELSE [ok |-> FALSE, val |-> 0]

RECURSIVE IntToStr(_)
\* str(n) for n >= 0, as the f-strings format idx+1
IntToStr(n) ==
    IF n < 10 THEN <<Digits[n + 1]>>
    ELSE IntToStr(n \div 10) \o <<Digits[(n % 10) + 1]>>

RECURSIVE CountFrom(_, _, _)
\* str.count(a): the non-overlapping occurrences of a in g, from index i on
CountFrom(g, a, i) ==
    IF i + Len(a) - 1 > Len(g) THEN 0
    ELSE IF SubSeq(g, i, i + Len(a) - 1) = a
         THEN 1 + CountFrom(g, a, i + Len(a))
         ELSE CountFrom(g, a, i + 1)

StrCount(g, a) == CountFrom(g, a, 1)

RECURSIVE Join(_)
\* ''.join(parts)
Join(parts) ==
    IF parts = <<>> THEN <<>> ELSE Head(parts) \o Join(Tail(parts))

----------------------------------------------------------------------------
(* Ordered dictionaries (Python dict, Counter): sequences of key/value      *)
(* records in insertion order.                                             *)

DictHas(d, k) == \E i \in 1..Len(d) : d[i].k = k

DictIdx(d, k) == CHOOSE i \in 1..Len(d) : d[i].k = k

DictGet(d, k) == d[DictIdx(d, k)].v

\* d[k] = v: a new key goes last, an existing key keeps its place
DictSet(d, k, v) ==
    IF DictHas(d, k)
    THEN [d EXCEPT ![DictIdx(d, k)] = [k |-> k, v |-> v]]
    ELSE Append(d, [k |-> k, v |-> v])

DictKeys(d) == [i \in 1..Len(d) |-> d[i].k]

----------------------------------------------------------------------------
(* The state names and the strings the program builds.                     *)

Sensible == <<"S", "e", "n", "s", "i", "b", "l", "e">>

Heterocigoto == <<"H", "e", "t", "e", "r", "o", "c", "i", "g", "o", "t", "o">>

Resistente == <<"R", "e", "s", "i", "s", "t", "e", "n", "t", "e">>

NoDeterminado ==
    <<"N", "o", " ", "s", "e", " ", "p", "u", "d", "o", " ",
      "d", "e", "t", "e", "r", "m", "i", "n", "a", "r">>

\* f'Tm_{pos}'
TmCol(pos) == <<"T", "m", "_">> \o pos

\* f'{pos}_{estado}'
DiffCol(pos, estado) == pos \o <<"_">> \o estado

\* f'Estado_{pos}'
EstadoCol(pos) == <<"E", "s", "t", "a", "d", "o", "_">> \o pos

GenotipoCol ==
    <<"G", "e", "n", "o", "t", "i", "p", "o", "_",
      "R", "e", "s", "u", "l", "t", "a", "n", "t", "e">>

----------------------------------------------------------------------------
(* Reference parser: the loop over args.tm.                                *)

\* mutant: the first letter is compared without lower()
EstadoClaveExacta(estado) ==
    IF StartsWith(estado, "s") THEN Sensible
    ELSE IF StartsWith(estado, "h") THEN Heterocigoto
    ELSE IF StartsWith(estado, "r") THEN Resistente
    ELSE <<>>

\* the normalised key of a trimmed state token; <<>> when it is not recognised
EstadoClave(estado) ==
    IF StartsWith(Lower(estado), "s") THEN Sensible
    ELSE IF StartsWith(Lower(estado), "h") THEN Heterocigoto
    ELSE IF StartsWith(Lower(estado), "r") THEN Resistente
    ELSE <<>>

\* one STATE:VAL pair, added to the mapping d of its locus
ParsePair(est, d) ==
    LET parts == Split(est, ":")
    IN  IF Len(parts) # 2 THEN [ok |-> FALSE, d |-> d]
        ELSE LET estado == Strip(parts[1])
                 valor  == ParseFloat(parts[2])
                 clave  == EstadoClave(estado)
             IN  IF ~valor.ok THEN [ok |-> FALSE, d |-> d]
                 ELSE IF clave = <<>> THEN [ok |-> FALSE, d |-> d]
                 ELSE [ok |-> TRUE, d |-> DictSet(d, clave, valor.val)]

RECURSIVE ParseEstados(_, _)
\* the loop over the pairs of one entry, stopping at the first that fails
ParseEstados(estados, d) ==
    IF estados = <<>> THEN [ok |-> TRUE, d |-> d]
    ELSE LET r == ParsePair(Head(estados), d)
         IN  IF r.ok THEN ParseEstados(Tail(estados), r.d) ELSE r

\* one -t entry, added to the reference mapping p
ParseEntry(tm_entry, p) ==
    LET parts == SplitOnce(tm_entry, ":")
    IN  IF Len(parts) # 2 THEN [ok |-> FALSE, p |-> p]
        ELSE LET pos == parts[1]
                 r   == ParseEstados(Split(parts[2], ","), <<>>)
             IN  IF r.ok THEN [ok |-> TRUE, p |-> DictSet(p, pos, r.d)]
                 ELSE [ok |-> FALSE, p |-> p]

RECURSIVE ParseTm(_, _)
\* the loop over args.tm; a failure names the entry that failed
ParseTm(tm, p) ==
    IF tm = <<>> THEN [ok |-> TRUE, p |-> p, entry |-> <<>>]
    ELSE LET r == ParseEntry(Head(tm), p)
         IN  IF r.ok THEN ParseTm(Tail(tm), r.p)
             ELSE [ok |-> FALSE, p |-> p, entry |-> Head(tm)]

----------------------------------------------------------------------------
(* The data frame: its columns in order, its number of rows, and one       *)
(* sequence of cells per column.                                           *)

Num(n) == [t |-> "num", n |-> n, s |-> <<>>]

NaN == [t |-> "nan", n |-> 0, s |-> <<>>]

None == [t |-> "none", n |-> 0, s |-> <<>>]

Str(s) == [t |-> "str", n |-> 0, s |-> s]

\* pd.isna
IsNa(c) == c.t \in {"nan", "none"}

NoFrame == [cols |-> <<>>, len |-> 0, data |-> <<>>]

HasCol(f, name) == \E i \in 1..Len(f.cols) : f.cols[i] = name

\* df[name] = series
SetCol(f, name, series) ==
    [cols |-> IF HasCol(f, name) THEN f.cols ELSE Append(f.cols, name),
     len  |-> f.len,
     data |-> [c \in (DOMAIN f.data) \cup {name} |->
                  IF c = name THEN series ELSE f.data[c]]]

\* df[names]
SelectCols(f, names) ==
    [cols |-> names,
     len  |-> f.len,
     data |-> [c \in {names[i] : i \in 1..Len(names)} |-> f.data[c]]]

\* pd.to_numeric(series, errors='coerce')
ToNumeric(series) ==
    [i \in 1..Len(series) |->
        LET c == series[i]
        IN  IF c.t = "num" THEN c
            ELSE IF c.t = "str" /\ ParseFloat(c.s).ok THEN Num(ParseFloat(c.s).val)
            ELSE NaN]

Abs(x) == IF x < 0 THEN -x ELSE x

\* (series - tm_val).abs()
AbsDiff(series, tm_val) ==
    [i \in 1..Len(series) |->
        IF series[i].t = "num" THEN Num(Abs(series[i].n - tm_val)) ELSE NaN]

----------------------------------------------------------------------------
(* Validation of the columns, differences, classifier, composer.           *)

\* mutant: the count check is skipped
CountMatchesAlways(a) == TRUE

\* args.num_mutaciones != len(args.tm) is the count mismatch
CountMatches(a) == a.num_mutaciones = Len(a.tm)

RECURSIVE VerifyLoop(_, _, _, _)
\* the loop over posiciones: a missing column ends it, a present one is coerced
VerifyLoop(f, p, i, usadas) ==
    IF i > Len(p) THEN [ok |-> TRUE, df |-> SelectCols(f, usadas), pos |-> <<>>]
    ELSE LET col_name == TmCol(p[i].k)
         IN  IF ~HasCol(f, col_name) THEN [ok |-> FALSE, df |-> f, pos |-> p[i].k]
             ELSE VerifyLoop(SetCol(f, col_name, ToNumeric(f.data[col_name])),
                             p, i + 1, Append(usadas, col_name))

RECURSIVE DiffsEstados(_, _, _, _)
\* the inner loop of the differences: one column per state of the locus
DiffsEstados(f, pos, tm_dict, j) ==
    IF j > Len(tm_dict) THEN f
    ELSE DiffsEstados(
            SetCol(f, DiffCol(pos, tm_dict[j].k),
                   AbsDiff(f.data[TmCol(pos)], tm_dict[j].v)),
            pos, tm_dict, j + 1)

RECURSIVE DiffsLoop(_, _, _)
\* the outer loop of the differences, over posiciones.items()
DiffsLoop(f, p, i) ==
    IF i > Len(p) THEN f
    ELSE DiffsLoop(DiffsEstados(f, p[i].k, p[i].v, 1), p, i + 1)

\* mutant: the farthest state wins
BetterFarthest(c, b) == c > b

\* mutant: among equidistant states the last one wins
BetterOrEqual(c, b) == c <= b

\* whether min() replaces its current best b by the candidate c
Better(c, b) == c < b

RECURSIVE MinKey(_, _, _)
\* min(diffs, key=diffs.get): the keys in order, the first minimum is kept
MinKey(diffs, j, best) ==
    IF j > Len(diffs) THEN diffs[best].k
    ELSE MinKey(diffs, j + 1, IF Better(diffs[j].v, diffs[best].v) THEN j ELSE best)

\* genotipo_por_posicion(row, pos), row being row i of frame f
genotipo_por_posicion(f, p, i, pos) ==
    IF IsNa(f.data[TmCol(pos)][i]) THEN None
    ELSE LET claves == DictKeys(DictGet(p, pos))
             diffs  == [j \in 1..Len(claves) |->
                           [k |-> claves[j], v |-> f.data[DiffCol(pos, claves[j])][i].n]]
         IN  Str(MinKey(diffs, 2, 1))

RECURSIVE EstadosLoop(_, _, _)
\* the loop that adds one Estado_<pos> column per locus
EstadosLoop(f, p, k) ==
    IF k > Len(p) THEN f
    ELSE EstadosLoop(
            SetCol(f, EstadoCol(p[k].k),
                   [i \in 1..f.len |-> genotipo_por_posicion(f, p, i, p[k].k)]),
            p, k + 1)

\* mutant: the loci are numbered from 0
TokenZeroBased(estado, idx) ==
    IF estado = Sensible THEN <<"S">>
    ELSE IF estado = Heterocigoto THEN <<"H">> \o IntToStr(idx)
    ELSE IF estado = Resistente THEN <<"R">> \o IntToStr(idx)
    ELSE <<>>

\* the token appended for a state at 0-based locus index idx
Token(estado, idx) ==
    IF estado = Sensible THEN <<"S">>
    ELSE IF estado = Heterocigoto THEN <<"H">> \o IntToStr(idx + 1)
    ELSE IF estado = Resistente THEN <<"R">> \o IntToStr(idx + 1)
    ELSE <<>>

\* mutant: the undetermined state is looked for as NaN instead of None
EsNoneNaN(estado) == estado.t = "nan"

\* whether the composer takes the state of a locus as undetermined
EsNone(estado) == estado.t = "none"

RECURSIVE GenotipoLoop(_, _, _, _, _)
\* the loop of genotipo_resultante_dinamico over enumerate(posiciones)
GenotipoLoop(f, p, i, idx, genotipo) ==
    IF idx >= Len(p) THEN Join(genotipo)
    ELSE LET estado == f.data[EstadoCol(p[idx + 1].k)][i]
         IN  IF EsNone(estado) THEN NoDeterminado
             ELSE GenotipoLoop(f, p, i, idx + 1,
                               Append(genotipo, Token(estado.s, idx)))

\* genotipo_resultante_dinamico(row), row being row i of frame f
genotipo_resultante_dinamico(f, p, i) == GenotipoLoop(f, p, i, 0, <<>>)

----------------------------------------------------------------------------
(* The summary.                                                            *)

RECURSIVE CounterLoop(_, _, _)
\* Counter(series): one key per distinct value, in order of first occurrence
CounterLoop(series, i, d) ==
    IF i > Len(series) THEN d
    ELSE LET g == series[i].s
         IN  CounterLoop(series, i + 1,
                         DictSet(d, g, (IF DictHas(d, g) THEN DictGet(d, g) ELSE 0) + 1))

Counter(series) == CounterLoop(series, 1, <<>>)

\* mutant: the undetermined samples are not dropped
DropNaNothing(series) == series

\* series.dropna()
DropNa(series) == SelectSeq(series, LAMBDA c : ~IsNa(c))

\* the value "{x:.2f}" prints for x = (c/total)*100, in hundredths: the nearest
\* hundredth, an exact half going to the even one
Round2(c, total) ==
    LET q == (c * 10000) \div total
        r == (c * 10000) % total
    IN  IF 2 * r < total THEN q
        ELSE IF 2 * r > total THEN q + 1
        ELSE IF q % 2 = 0 THEN q ELSE q + 1

\* (c/total)*100 as printed; the division raises when total is 0
Division(c, total) ==
    IF total = 0 THEN [ok |-> FALSE, val |-> 0]
    ELSE [ok |-> TRUE, val |-> Round2(c, total)]

\* mutant: the allele percentage without its guard
AlelePctSinGuarda(c, total_ale) == Division(c, total_ale)

\* recuento_alelos[a]/total_ale*100 if total_ale>0 else 0
AlelePct(c, total_ale) ==
    IF total_ale > 0 THEN Division(c, total_ale) ELSE [ok |-> TRUE, val |-> 0]

RECURSIVE AlelosLoop(_, _, _)
\* the possible alleles: H and R numbered per locus, then S
AlelosLoop(idx, n, alelos) ==
    IF idx >= n THEN Append(alelos, <<"S">>)
    ELSE AlelosLoop(idx + 1, n,
                    alelos \o << <<"H">> \o IntToStr(idx + 1), <<"R">> \o IntToStr(idx + 1) >>)

Alelos(n) == AlelosLoop(0, n, <<>>)

RECURSIVE Recuento(_, _, _)
\* recuento_alelos[a]: the occurrences of a in the determined genotypes
Recuento(col, a, i) ==
    IF i > Len(col) THEN 0
    ELSE (IF col[i].s # NoDeterminado THEN StrCount(col[i].s, a) ELSE 0)
         + Recuento(col, a, i + 1)

RECURSIVE SumV(_)
SumV(d) == IF d = <<>> THEN 0 ELSE Head(d).v + SumV(Tail(d))

\* the rows written for a Counter: key, count, percentage of total_muestras
Filas(conteo, total_muestras) ==
    [i \in 1..Len(conteo) |->
        [k |-> conteo[i].k, c |-> conteo[i].v, pct |-> Division(conteo[i].v, total_muestras)]]

\* the multi-locus summary
ResumenMulti(f, p) ==
    LET total_muestras   == f.len
        conteo_genotipos == Counter(f.data[GenotipoCol])
        alelos           == Alelos(Len(p))
        recuento_alelos  == [i \in 1..Len(alelos) |->
                                [k |-> alelos[i], v |-> Recuento(f.data[GenotipoCol], alelos[i], 1)]]
        total_ale        == SumV(recuento_alelos)
    IN  [modo   |-> "multi",
         filas  |-> Filas(conteo_genotipos, total_muestras),
         alelos |-> [i \in 1..Len(alelos) |->
                        [k |-> alelos[i], c |-> recuento_alelos[i].v,
                         pct |-> AlelePct(recuento_alelos[i].v, total_ale)]]]

\* the single-locus summary
ResumenSingle(f, p) ==
    LET pos            == p[1].k
        total_muestras == f.len
        conteo_estados == Counter(DropNa(f.data[EstadoCol(pos)]))
    IN  [modo   |-> "single",
         filas  |-> Filas(conteo_estados, total_muestras),
         alelos |-> <<>>]

ZeroDivision(r) ==
    \/ \E i \in 1..Len(r.filas) : ~r.filas[i].pct.ok
    \/ \E i \in 1..Len(r.alelos) : ~r.alelos[i].pct.ok

NoResumen == [modo |-> "", filas |-> <<>>, alelos |-> <<>>]

----------------------------------------------------------------------------
(* main(), one action per step.                                            *)

ValidateCount ==
    /\ pc = "validate_count"
    /\ IF CountMatches(args)
       THEN pc' = "validate_file" /\ err' = err
       ELSE pc' = "error" /\ err' = "ArgumentCountMismatch"
    /\ UNCHANGED <<args, errEntry, fileExists, df, posiciones, excel, written, resumen>>

ValidateFile ==
    /\ pc = "validate_file"
    /\ \E e \in BOOLEAN :
          /\ fileExists' = e
          /\ IF e THEN pc' = "read_excel" /\ err' = err
                  ELSE pc' = "error" /\ err' = "FileNotFound"
    /\ UNCHANGED <<args, errEntry, df, posiciones, excel, written, resumen>>

ReadExcel(Tablas) ==
    /\ pc = "read_excel"
    /\ \E t \in Tablas :
          /\ excel' = t
          /\ df' = t
    /\ pc' = "parse_tm"
    /\ UNCHANGED <<args, err, errEntry, fileExists, posiciones, written, resumen>>

ParseRefs ==
    /\ pc = "parse_tm"
    /\ LET r == ParseTm(args.tm, <<>>)
       IN  IF r.ok
           THEN /\ posiciones' = r.p
                /\ pc' = "verify_columns"
                /\ UNCHANGED <<err, errEntry>>
           ELSE /\ pc' = "error"
                /\ err' = "ReferenceFormatError"
                /\ errEntry' = r.entry
                /\ UNCHANGED posiciones
    /\ UNCHANGED <<args, fileExists, df, excel, written, resumen>>

VerifyColumns ==
    /\ pc = "verify_columns"
    /\ LET r == VerifyLoop(df, posiciones, 1, <<>>)
       IN  /\ df' = r.df
           /\ IF r.ok
              THEN pc' = "diffs" /\ UNCHANGED <<err, errEntry>>
              ELSE pc' = "error" /\ err' = "MissingColumnError" /\ errEntry' = r.pos
    /\ UNCHANGED <<args, fileExists, posiciones, excel, written, resumen>>

ComputeDiffs ==
    /\ pc = "diffs"
    /\ df' = DiffsLoop(df, posiciones, 1)
    /\ pc' = "estados"
    /\ UNCHANGED <<args, err, errEntry, fileExists, posiciones, excel, written, resumen>>

\* On a frame without rows df.apply(..., axis=1) returns a frame, not a series, and
\* whether a frame can be assigned to one column depends on the pandas in use.
AssignEstados ==
    /\ pc = "estados"
    /\ \/ /\ df.len = 0
          /\ pc' = "error"
          /\ err' = "EmptyApplyError"
          /\ UNCHANGED df
       \/ /\ df' = EstadosLoop(df, posiciones, 1)
          /\ pc' = "genotipo"
          /\ UNCHANGED err
    /\ UNCHANGED <<args, errEntry, fileExists, posiciones, excel, written, resumen>>

BuildGenotipo ==
    /\ pc = "genotipo"
    /\ df' = IF Len(posiciones) > 1
             THEN SetCol(df, GenotipoCol,
                         [i \in 1..df.len |->
                             Str(genotipo_resultante_dinamico(df, posiciones, i))])
             ELSE df
    /\ pc' = "save_excel"
    /\ UNCHANGED <<args, err, errEntry, fileExists, posiciones, excel, written, resumen>>

SaveExcel ==
    /\ pc = "save_excel"
    /\ written' = Append(written, "xlsx")
    /\ pc' = IF args.txt THEN "write_txt" ELSE "done"
    /\ UNCHANGED <<args, err, errEntry, fileExists, df, posiciones, excel, resumen>>

\* open(args.txt, 'w') creates the file before any line of it is computed
WriteTxt ==
    /\ pc = "write_txt"
    /\ written' = Append(written, "txt")
    /\ LET r == IF Len(posiciones) > 1
                THEN ResumenMulti(df, posiciones)
                ELSE ResumenSingle(df, posiciones)
       IN  IF ZeroDivision(r)
           THEN pc' = "error" /\ err' = "ZeroDivisionError" /\ UNCHANGED resumen
           ELSE pc' = "done" /\ resumen' = r /\ UNCHANGED err
    /\ UNCHANGED <<args, errEntry, fileExists, df, posiciones, excel>>

Run(Tablas) ==
    \/ ValidateCount
    \/ ValidateFile
    \/ ReadExcel(Tablas)
    \/ ParseRefs
    \/ VerifyColumns
    \/ ComputeDiffs
    \/ AssignEstados
    \/ BuildGenotipo
    \/ SaveExcel
    \/ WriteTxt

----------------------------------------------------------------------------
(* Inputs.                                                                 *)

SeqsUpTo(S, n) == UNION {[1..k -> S] : k \in 0..n}

\* a table from its column names and its rows (one sequence of cells per row)
Tabla(cols, rows) ==
    [cols |-> cols,
     len  |-> Len(rows),
     data |-> [c \in {cols[j] : j \in 1..Len(cols)} |->
                  [i \in 1..Len(rows) |-> rows[i][CHOOSE j \in 1..Len(cols) : cols[j] = c]]]]

TablasDe(cols, celdas, n) ==
    {Tabla(cols, rows) : rows \in SeqsUpTo([1..Len(cols) -> celdas], n)}

Start(a) ==
    /\ args = a
    /\ pc = "validate_count"
    /\ err = ""
    /\ errEntry = <<>>
    /\ fileExists = FALSE
    /\ df = NoFrame
    /\ posiciones = <<>>
    /\ excel = NoFrame
    /\ written = <<>>
    /\ resumen = NoResumen

(* The general runs: up to MaxT -t arguments out of a few entries, among them *)
(* a repeated position label and malformed ones; tables with and without   *)
(* the column of the second locus.                                         *)

EntradaA == <<"A", ":", "S", ":", "7", ",", "H", ":", "5", ",", "R", ":", "2">>

EntradaB == <<"B", ":", "s", ":", "2", ",", "h", ":", "5", ",", "r", ":", "7">>

EntradaA2 == <<"A", ":", "H", ":", "5">>

EntradaMalEstado == <<"B", ":", "x", ":", "3">>

EntradaSinValor == <<"B">>

Entradas == {EntradaA, EntradaB, EntradaA2, EntradaMalEstado, EntradaSinValor}

Celdas == {Num(2), Num(5), Num(7), NaN, Str(<<"x">>)}

Tablas ==
    TablasDe(<<TmCol(<<"A">>), TmCol(<<"B">>)>>, Celdas, MaxRows)
    \cup TablasDe(<<TmCol(<<"A">>)>>, Celdas, MaxRows)

Init ==
    \E n \in 1..MaxT, tm \in SeqsUpTo(Entradas, MaxT) \ {<<>>}, txt \in BOOLEAN :
        Start([num_mutaciones |-> n, tm |-> tm, txt |-> txt])

Next == Run(Tablas)

Spec == Init /\ [][Next]_vars

(* The runs on one locus: one -t argument for position A made of up to     *)
(* MaxPairs STATE:VAL pairs, in every order and with repetitions, among    *)
(* them state tokens in both cases, with blanks, unrecognised and empty,   *)
(* a value that is no number and a pair without a colon; one sample.       *)

Pares ==
    {<<"S", ":", "2">>,
     <<"s", ":", "6">>,
     <<" ", "h", "S", ":", "4">>,
     <<"H", ":", "6">>,
     <<"R", "e", "s", ":", "2">>,
     <<"r", " ", ":", "4">>,
     <<"x", ":", "4">>,
     <<":", "4">>,
     <<"S", ":", "z">>,
     <<"S", "4">>}

RECURSIVE JoinComma(_)
JoinComma(parts) ==
    IF Len(parts) = 1 THEN parts[1]
    ELSE parts[1] \o <<",">> \o JoinComma(Tail(parts))

EntradasLocus ==
    {<<"A", ":">> \o JoinComma(ps) : ps \in SeqsUpTo(Pares, MaxPairs) \ {<<>>}}

CeldasLocus == {Num(n) : n \in 1..7} \cup {NaN, Str(<<"5">>)}

TablasLocus == TablasDe(<<TmCol(<<"A">>)>>, CeldasLocus, 1)

InitLocus ==
    \E e \in EntradasLocus :
        Start([num_mutaciones |-> 1, tm |-> <<e>>, txt |-> TRUE])

NextLocus == Run(TablasLocus)

SpecLocus == InitLocus /\ [][NextLocus]_vars

(* The runs of the single-locus summary: the reference entry of position A *)
(* and up to MaxSummaryRows samples, each nearest to one of the three      *)
(* states or without a Tm.                                                 *)

CeldasResumen == {Num(2), Num(5), Num(7), NaN}

TablasResumen == TablasDe(<<TmCol(<<"A">>)>>, CeldasResumen, MaxSummaryRows)

InitResumen ==
    \E txt \in BOOLEAN :
        Start([num_mutaciones |-> 1, tm |-> <<EntradaA>>, txt |-> txt])

NextResumen == Run(TablasResumen)

SpecResumen == InitResumen /\ [][NextResumen]_vars

(* The runs on WideLoci loci: one entry per position, every sample          *)
(* heterozygous or resistant at every locus.                               *)

WideLoci == 10

Letras == <<"A", "B", "C", "D", "E", "F", "G", "H", "I", "J", "K", "L", "M", "N", "O", "P">>

EntradaWide(k) == <<Letras[k]>> \o <<":", "S", ":", "2", ",", "H", ":", "4", ",", "R", ":", "6">>

CeldasWide == {Num(4), Num(6)}

TablasWide ==
    TablasDe([k \in 1..WideLoci |-> TmCol(<<Letras[k]>>)], CeldasWide, MaxWideRows)

InitWide ==
    \E txt \in BOOLEAN :
        Start([num_mutaciones |-> WideLoci,
               tm |-> [k \in 1..WideLoci |-> EntradaWide(k)],
               txt |-> txt])

NextWide == Run(TablasWide)

SpecWide == InitWide /\ [][NextWide]_vars

----------------------------------------------------------------------------
(* Properties.                                                             *)

\* the states of a run in which every Estado_<pos> column has been assigned
Classified ==
    \/ pc \in {"genotipo", "save_excel", "write_txt", "done"}
    \/ pc = "error" /\ err = "ZeroDivisionError"

\* the measured Tm of sample i at locus pos, as read from the file and coerced
Measured(pos, i) == ToNumeric(excel.data[TmCol(pos)])[i]

\* the state assigned to sample i at locus pos
Assigned(pos, i) == df.data[EstadoCol(pos)][i]

\* C1: for every sample and every configured locus where the measured Tm is
\* present, the assigned state is one of the states configured for the locus
\* and no configured state of the locus is strictly nearer to the Tm.
TheoremC1 ==
    Classified =>
        \A k \in 1..Len(posiciones), i \in 1..df.len :
            LET pos  == posiciones[k].k
                refs == posiciones[k].v
                tm   == Measured(pos, i)
                e    == Assigned(pos, i)
            IN  tm.t = "num" =>
                    /\ e.t = "str"
                    /\ DictHas(refs, e.s)
                    /\ \A j \in 1..Len(refs) :
                          Abs(tm.n - DictGet(refs, e.s)) <= Abs(tm.n - refs[j].v)

\* C1 witness: a sample with a Tm, three configured states at three different
\* distances, the nearest one being neither the first nor the last configured.
WitnessC1 ==
    /\ pc = "done"
    /\ \E k \in 1..Len(posiciones), i \in 1..df.len :
          LET refs == posiciones[k].v
              tm   == Measured(posiciones[k].k, i)
          IN  /\ tm.t = "num"
              /\ Len(refs) = 3
              /\ Assigned(posiciones[k].k, i) = Str(refs[2].k)
              /\ Abs(tm.n - refs[2].v) < Abs(tm.n - refs[1].v)
              /\ Abs(tm.n - refs[2].v) < Abs(tm.n - refs[3].v)

----------------------------------------------------------------------------
(* The -t arguments as written, read independently of the parser.           *)

\* the position label of a -t argument (the text before its first colon)
LabelOf(entry) == SplitOnce(entry, ":")[1]

\* the STATE:VAL pairs of a -t argument that has a colon
PairsOf(entry) == Split(SplitOnce(entry, ":")[2], ",")

\* the whitespace-trimmed state token of a pair
PairToken(est) == Strip(Split(est, ":")[1])

\* the state a first letter stands for; <<>> for any other character
NombreDe(c) ==
    IF c \in {"s", "S"} THEN Sensible
    ELSE IF c \in {"h", "H"} THEN Heterocigoto
    ELSE IF c \in {"r", "R"} THEN Resistente
    ELSE <<>>

\* the state a pair names; <<>> when its token is empty or not recognised
PairState(est) ==
    IF PairToken(est) = <<>> THEN <<>> ELSE NombreDe(PairToken(est)[1])

\* a pair with exactly one colon and a number after it
PairShapeOk(est) == Len(Split(est, ":")) = 2 /\ ParseFloat(Split(est, ":")[2]).ok

EntryOk(entry) ==
    /\ Len(SplitOnce(entry, ":")) = 2
    /\ \A j \in 1..Len(PairsOf(entry)) :
          PairShapeOk(PairsOf(entry)[j]) /\ PairState(PairsOf(entry)[j]) # <<>>

\* the last -t argument given for position pos
EntryFor(pos) ==
    args.tm[CHOOSE n \in 1..Len(args.tm) :
                /\ LabelOf(args.tm[n]) = pos
                /\ \A m \in (n + 1)..Len(args.tm) : LabelOf(args.tm[m]) # pos]

\* the index of the first pair of entry that names estado
FirstSeen(entry, estado) ==
    CHOOSE j \in 1..Len(PairsOf(entry)) :
        /\ PairState(PairsOf(entry)[j]) = estado
        /\ \A l \in 1..(j - 1) : PairState(PairsOf(entry)[l]) # estado

\* the configured states of refs at minimal distance from tm
Nearest(refs, tm) ==
    {j \in 1..Len(refs) :
        \A l \in 1..Len(refs) : Abs(tm - refs[j].v) <= Abs(tm - refs[l].v)}

\* C8: when two or more configured states of a locus are at the same minimal
\* distance from a sample's Tm, the assigned state is the one among them that
\* was encountered first in the locus's -t entry.
TheoremC8 ==
    Classified =>
        \A k \in 1..Len(posiciones), i \in 1..df.len :
            LET pos   == posiciones[k].k
                refs  == posiciones[k].v
                tm    == Measured(pos, i)
                entry == EntryFor(pos)
            IN  (tm.t = "num" /\ Cardinality(Nearest(refs, tm.n)) >= 2) =>
                    \E j \in Nearest(refs, tm.n) :
                        /\ Assigned(pos, i) = Str(refs[j].k)
                        /\ \A l \in Nearest(refs, tm.n) :
                              FirstSeen(entry, refs[j].k) <= FirstSeen(entry, refs[l].k)

\* C8 witness: a tie between two states in an entry that names the assigned
\* state twice, its tied value being given after the pair of the other state.
WitnessC8 ==
    /\ pc = "done"
    /\ \E i \in 1..df.len :
          LET pos   == posiciones[1].k
              refs  == posiciones[1].v
              tm    == Measured(pos, i)
              pairs == PairsOf(EntryFor(pos))
          IN  /\ tm.t = "num"
              /\ Cardinality(Nearest(refs, tm.n)) = 2
              /\ Len(pairs) = 3
              /\ PairState(pairs[1]) = PairState(pairs[3])
              /\ PairState(pairs[2]) # PairState(pairs[1])
              /\ Assigned(pos, i) = Str(PairState(pairs[1]))

\* the states of a run in which the -t arguments have been parsed
Parsed ==
    \/ pc \in {"verify_columns", "diffs", "estados", "genotipo", "save_excel",
               "write_txt", "done"}
    \/ pc = "error" /\ err \notin {"ArgumentCountMismatch", "FileNotFound"}

\* C9: a trimmed state token is mapped by its first letter, in either case, to
\* Sensible, Heterocigoto or Resistente; any other first character, or an empty
\* token, ends the run with a format error that names the -t argument, and no
\* reference mapping is used for classification.
TheoremC9 ==
    Parsed =>
        IF \A n \in 1..Len(args.tm) : EntryOk(args.tm[n])
        THEN /\ err # "ReferenceFormatError"
             /\ \A k \in 1..Len(posiciones) :
                   LET pairs == PairsOf(EntryFor(posiciones[k].k))
                   IN  {posiciones[k].v[j].k : j \in 1..Len(posiciones[k].v)}
                       = {PairState(pairs[j]) : j \in 1..Len(pairs)}
        ELSE /\ pc = "error"
             /\ err = "ReferenceFormatError"
             /\ \E n \in 1..Len(args.tm) :
                   /\ errEntry = args.tm[n]
                   /\ ~EntryOk(args.tm[n])
                   /\ \A m \in 1..(n - 1) : EntryOk(args.tm[m])
             /\ posiciones = <<>>
             /\ df = excel
             /\ written = <<>>

\* C9 witness: a run ended by an empty state token, in an entry whose first
\* pair has a token with a leading blank that was recognised by its first letter.
WitnessC9 ==
    /\ pc = "error"
    /\ err = "ReferenceFormatError"
    /\ Len(SplitOnce(errEntry, ":")) = 2
    /\ LET pairs == PairsOf(errEntry)
       IN  /\ Len(pairs) = 2
           /\ PairShapeOk(pairs[1]) /\ PairShapeOk(pairs[2])
           /\ Head(pairs[1]) = " "
           /\ PairState(pairs[1]) = Heterocigoto
           /\ PairToken(pairs[2]) = <<>>

----------------------------------------------------------------------------
(* Composition, validation order, summaries.                               *)

\* the states of a run in which the composed genotype has been assigned
Composed ==
    \/ pc \in {"save_excel", "write_txt", "done"}
    \/ pc = "error" /\ err = "ZeroDivisionError"

\* a cell of the file that holds no Tm: empty, or a text that is no number
TmMissing(c) == c.t = "nan" \/ (c.t = "str" /\ ~ParseFloat(c.s).ok)

\* C2: a missing (empty or non-numeric) Tm at a configured locus leaves the
\* state of that locus undetermined, and in multi-locus mode a sample with an
\* undetermined state at any locus has exactly the sentinel as its genotype.
TheoremC2 ==
    /\ Classified =>
          \A k \in 1..Len(posiciones), i \in 1..df.len :
              TmMissing(excel.data[TmCol(posiciones[k].k)][i])
                  => Assigned(posiciones[k].k, i) = None
    /\ (Composed /\ Len(posiciones) > 1) =>
          \A i \in 1..df.len :
              (\E k \in 1..Len(posiciones) : Assigned(posiciones[k].k, i) = None)
                  => df.data[GenotipoCol][i] = Str(NoDeterminado)

\* C2 witness: two loci, a sample determined at the first and with a text that
\* is no number at the second, whose genotype is the sentinel.
WitnessC2 ==
    /\ pc = "done"
    /\ Len(posiciones) = 2
    /\ \E i \in 1..df.len :
          /\ Assigned(posiciones[1].k, i).t = "str"
          /\ excel.data[TmCol(posiciones[2].k)][i].t = "str"
          /\ Assigned(posiciones[2].k, i) = None
          /\ df.data[GenotipoCol][i] = Str(NoDeterminado)

\* the token the specification gives a state at the 1-based locus index i
ExpectedToken(estado, i) ==
    IF estado = Sensible THEN <<"S">>
    ELSE IF estado = Heterocigoto THEN <<"H">> \o IntToStr(i)
    ELSE <<"R">> \o IntToStr(i)

ClaimC4 ==
    (Parsed /\ err # "ReferenceFormatError") =>
        /\ Len(posiciones) = Len(args.tm)
        /\ Len(posiciones) = args.num_mutaciones

\* C5: an output is written only in runs where the count check, the file
\* check, the parse of every -t argument and the column check have all passed,
\* and a run ended by one of the four has written nothing.
TheoremC5 ==
    /\ written # <<>> =>
          /\ args.num_mutaciones = Len(args.tm)
          /\ fileExists
          /\ \A n \in 1..Len(args.tm) :
                /\ EntryOk(args.tm[n])
                /\ HasCol(excel, TmCol(LabelOf(args.tm[n])))
    /\ (pc = "error" /\ err \in {"ArgumentCountMismatch", "FileNotFound",
                                 "ReferenceFormatError", "MissingColumnError"})
          => written = <<>> /\ resumen = NoResumen

\* C5 witness: a run ended by the last of the four checks, the column check,
\* with nothing written.
WitnessC5 ==
    /\ pc = "error"
    /\ err = "MissingColumnError"
    /\ written = <<>>

RECURSIVE SumC(_)
SumC(rows) == IF rows = <<>> THEN 0 ELSE Head(rows).c + SumC(Tail(rows))

RECURSIVE SumPct(_)
SumPct(rows) == IF rows = <<>> THEN 0 ELSE Head(rows).pct.val + SumPct(Tail(rows))

\* C10: the summary never divides by zero: a percentage of the total number
\* of samples is computed only when there is a sample, and the percentage of
\* every allele is 0 when no allele was counted.
TheoremC10 ==
    /\ err # "ZeroDivisionError"
    /\ pc = "done" /\ args.txt =>
          /\ Len(resumen.filas) > 0 => df.len > 0
          /\ (resumen.modo = "multi" /\ SumC(resumen.alelos) = 0) =>
                \A j \in 1..Len(resumen.alelos) : resumen.alelos[j].pct.val = 0

\* C10 witness: a multi-locus summary of samples that are all undetermined.
WitnessC10 ==
    /\ pc = "done"
    /\ resumen.modo = "multi"
    /\ df.len > 0
    /\ \A i \in 1..df.len : df.data[GenotipoCol][i] = Str(NoDeterminado)
    /\ SumC(resumen.alelos) = 0
    /\ \A j \in 1..Len(resumen.alelos) : resumen.alelos[j].pct.val = 0

----------------------------------------------------------------------------
(* The single-locus summary.                                               *)

\* the number of samples whose state at the only locus is the cell e
Tally(e) ==
    Cardinality({i \in 1..df.len : Assigned(posiciones[1].k, i) = e})

\* the states listed: one row per state some sample was classified into, with
\* the number of those samples; no row for the undetermined samples
CountsRight ==
    /\ \A j \in 1..Len(resumen.filas) :
          /\ resumen.filas[j].k \in {Sensible, Heterocigoto, Resistente}
          /\ resumen.filas[j].c = Tally(Str(resumen.filas[j].k))
          /\ resumen.filas[j].c > 0
          /\ \A l \in 1..Len(resumen.filas) :
                resumen.filas[l].k = resumen.filas[j].k => l = j
    /\ \A i \in 1..df.len :
          Assigned(posiciones[1].k, i).t = "str" =>
              \E j \in 1..Len(resumen.filas) :
                  resumen.filas[j].k = Assigned(posiciones[1].k, i).s
    /\ SumC(resumen.filas) = df.len - Tally(None)

SingleDone == pc = "done" /\ resumen.modo = "single"

\* C6 as stated: the counts are right, every percentage is the count divided
\* by the number of all samples, and the percentages listed sum to at most
\* 100%, to less than 100% when a sample is undetermined.
ClaimC6 ==
    SingleDone =>
        /\ CountsRight
        /\ \A j \in 1..Len(resumen.filas) :
              2 * Abs(resumen.filas[j].pct.val * df.len - resumen.filas[j].c * 10000)
                  <= df.len
        /\ SumPct(resumen.filas) <= 10000
        /\ Tally(None) > 0 => SumPct(resumen.filas) < 10000

\* C6 amended: the counts are right; every percentage listed is the count
\* divided by the number of all samples, rounded to the nearest hundredth of a
\* percent; the exact quotients sum to at most 100%, to less when a sample is
\* undetermined; the listed percentages sum to at most 100% plus half a
\* hundredth per row.
TheoremC6 ==
    SingleDone =>
        /\ CountsRight
        /\ \A j \in 1..Len(resumen.filas) :
              2 * Abs(resumen.filas[j].pct.val * df.len - resumen.filas[j].c * 10000)
                  <= df.len
        /\ SumC(resumen.filas) * 10000 <= df.len * 10000
        /\ Tally(None) > 0 => SumC(resumen.filas) * 10000 < df.len * 10000
        /\ 2 * SumPct(resumen.filas) * df.len
              <= 2 * SumC(resumen.filas) * 10000 + Len(resumen.filas) * df.len

\* C6 witness: a summary of three states with one sample undetermined.
WitnessC6 ==
    /\ SingleDone
    /\ Len(resumen.filas) = 3
    /\ Tally(None) = 1
    /\ SumC(resumen.filas) = df.len - 1
    /\ SumPct(resumen.filas) < 10000

----------------------------------------------------------------------------
(* The multi-locus summary.                                                *)

\* the samples determined at every locus
Determined ==
    {i \in 1..df.len :
        \A k \in 1..Len(posiciones) : Assigned(posiciones[k].k, i).t = "str"}

\* the count the specification gives an allele token
ExpectedCount(a) ==
    IF a = <<"S">>
    THEN Cardinality({<<i, k>> \in Determined \X (1..Len(posiciones)) :
                         Assigned(posiciones[k].k, i) = Str(Sensible)})
    ELSE LET k == CHOOSE k \in 1..Len(posiciones) :
                      a \in {<<"H">> \o IntToStr(k), <<"R">> \o IntToStr(k)}
             e == IF Head(a) = "H" THEN Heterocigoto ELSE Resistente
         IN  Cardinality({i \in Determined : Assigned(posiciones[k].k, i) = Str(e)})

\* C7: in the multi-locus summary the count of H<i> (R<i>) is the number of
\* fully determined samples heterozygous (resistant) at locus i, the count of S
\* the number of sensitive (sample, locus) pairs of fully determined samples,
\* and the counts sum to (number of loci) x (number of fully determined samples).
ClaimC7 ==
    (pc = "done" /\ resumen.modo = "multi") =>
        /\ \A j \in 1..Len(resumen.alelos) :
              resumen.alelos[j].c = ExpectedCount(resumen.alelos[j].k)
        /\ SumC(resumen.alelos) = Len(posiciones) * Cardinality(Determined)

====
